---- MODULE Spec2Model ----
(***************************************************************************)
(* Karigar: the job lifecycle (ServiceRequest), the accept action of the   *)
(* ServiceRequestViewSet, the expiry sweeper                               *)
(* (ServiceRequestManager.delete_expired_pending_requests) and the         *)
(* post_save statistics signal.                                            *)
(*                                                                         *)
(* Every HTTP detail action is two steps: Begin* (permission checks,       *)
(* get_object() on the role's queryset, the handler's checks and the       *)
(* in-memory assignments on the fetched instance) and SaveRequest (the     *)
(* instance.save() that writes the WHOLE row, followed by the post_save    *)
(* signal).  Other requests and sweeper runs may act between the two.      *)
(* A request that is refused changes nothing: it is a stuttering step,     *)
(* which [Next]_vars allows in every state, and the answer it gets is the  *)
(* value of the *_response operator in the state it is made in.            *)
(*                                                                         *)
(* The second part is the real-time hub (consumers.ServiceRequestConsumer):*)
(* one consumer per websocket connection, which handles one message at a   *)
(* time and gives way to the other consumers at every await.  SpecHub runs *)
(* the consumers over a job table that the hub only reads.                 *)
(* SpecRooms runs them over two accepted jobs and the textual forms of a   *)
(* job id in the URL; SpecLive runs the connection handshake beside create *)
(* and accept.                                                             *)
(***************************************************************************)
EXTENDS Integers, Sequences, FiniteSets, Bags, TLC

\* ------------------------------------------------------------------ bounds
MaxTime == 60
TickStep == 30
\* requests holding a fetched instance plus sweeper runs in progress
MaxConcurrent == 2
\* frames received from the clients over all connections
MaxFrames == 2

\* ------------------------------------------------------- program constants
timeout_seconds == 30

\* ---------------------------------------------------------------- universe
Null == "null"
Customers == {"c1"}
Mechanics == {"m1", "m2"}
Admins == {"a1"}
Users == Customers \cup Mechanics \cup Admins
\* accounts with is_active = False (the authentication of a request refuses
\* them, so none of them is a caller), accounts with is_suspended = True
InactiveUsers == {}
SuspendedUsers == {"m2"}
\* the ids of ServiceRequest rows; the ids that create hands out
Jobs == {"j1", "j2"}
NewJobs == {"j1"}
\* request.data.get('estimated_arrival_minutes'): 0 stands for an absent or
\* falsy value
Etas == {0, 10}
NoReason == "absent"
ReasonInputs == {"changed_mind"}

\* websocket connections; scope["user"] of a caller that is not logged in
Conns == {"k1", "k2"}
AnonymousUser == "anonymous"
Callers == Users \cup {AnonymousUser}
\* request_id of the URL, a string of hex digits and hyphens: the id of a
\* row as str(uuid) prints it, the same id with its hyphens elsewhere, the
\* id of a second row, an id that no row has
Urls == {"j1", "j-1", "j2", "j0"}
\* UUIDField.to_python(request_id): uuid.UUID(hex=value) drops the hyphens
to_python(r) == IF r = "j-1" THEN "j1" ELSE r
\* the URLs that the connections of SpecHub are opened with
RequestIds == {"j1", "j0"}
\* JSON values of latitude and longitude: numbers, absent (None), a string
\* that float() refuses
Numbers == {"31.5", "74.3"}
Coordinates ==
    {<<"31.5", "74.3">>, <<Null, "74.3">>, <<"31.5", Null>>, <<"abc", "74.3">>}
\* JSON values of 'message': absent, empty, a text
Messages == {Null, "", "hi"}
NoTime == 0 - 1

role(u) ==
    IF u \in Customers THEN "customer"
    ELSE IF u \in Mechanics THEN "mechanic" ELSE "admin"

\* A row of ServiceRequest that has not been inserted yet.
NoRow ==
    [exists |-> FALSE, customer |-> Null, mechanic |-> Null, status |-> "none",
     estimated_arrival_time |-> 0, created_at |-> 0, deleted |-> FALSE,
     cancellation_reason |-> "", cancelled_by |-> ""]

NoStats == [total_requests |-> 0, total_completed |-> 0, total_cancelled |-> 0]

VARIABLES
    now,       \* timezone.now(), in seconds
    db,        \* the ServiceRequest table: job id -> row
    stats,     \* the statistics fields of the User table
    req,       \* bag of in-flight HTTP requests that hold a fetched instance
    sw,        \* bag of sweeper runs: position, selected instances
    winners,   \* history: per job, the callers whose accept returned 200
    retired,   \* history: per job, the number of soft_delete() saves
    conn,      \* per connection: the consumer's position and attributes
    groups,    \* channel layer: room_group_name -> member channels
    channel,   \* channel layer: per channel, the events not yet dispatched
    sent,      \* per connection, the frames sent to the client so far
    location_updates,  \* the LocationUpdate table, in insertion order
    chat_sessions,     \* the ChatSession table: bag of the jobs of its rows
    chat_messages,     \* the ChatMessage table, in insertion order
    mechanic_profile,  \* the position columns of the Mechanic table
    received   \* history: the number of frames received from the clients,
               \* of location frames with two numbers among them, the last
               \* one, and in order those that a handler went on to store

\* the state of the hub, the state of the job store
hub == <<conn, groups, channel, sent, location_updates, chat_sessions,
         chat_messages, mechanic_profile, received>>
store == <<db, stats, req, sw, winners, retired>>

vars == <<now, db, stats, req, sw, winners, retired, hub>>

\* ------------------------------------------------------------ the querysets

\* SoftDeleteQuerySet.active(): deleted_at IS NULL
active(row) == row.exists /\ ~row.deleted

\* ServiceRequestViewSet.get_queryset
get_queryset(u, row) ==
    /\ active(row)
    /\ CASE role(u) = "customer" -> row.customer = u
         [] role(u) = "mechanic" -> row.mechanic = u \/ row.status = "pending"
         [] OTHER -> TRUE

\* permissions.IsAssignedMechanic.has_object_permission (action is not accept)
IsAssignedMechanic(u, row) == row.mechanic = u

\* permissions.IsServiceRequestOwner.has_object_permission
IsServiceRequestOwner(u, row) ==
    row.customer = u \/ row.mechanic = u \/ role(u) = "admin"

\* mutant: the sweeper's filter without status='pending'
expired_filter_any_status(row, cutoff_time) ==
    active(row) /\ row.created_at < cutoff_time

\* the filter of delete_expired_pending_requests
expired_filter(row, cutoff_time) ==
    active(row) /\ row.status = "pending" /\ row.created_at < cutoff_time

\* ------------------------------------------------------- the model's methods

\* mutant: accept that changes the status and forgets the mechanic
accept_assign_no_mechanic(row, u, eta) ==
    [row EXCEPT !.status = "accepted", !.estimated_arrival_time = eta]

\* views.accept: the three assignments before save()
accept_assign(row, u, eta) ==
    [row EXCEPT !.mechanic = u, !.status = "accepted",
                !.estimated_arrival_time = eta]

\* ServiceRequest.start_service: the assignment before save()
start_assign(row) == [row EXCEPT !.status = "in_progress"]

\* mutant: cancel that also unbinds the provider
cancel_assign_unbinds(row, reason, cancelled_by) ==
    [row EXCEPT !.status = "cancelled", !.cancellation_reason = reason,
                !.cancelled_by = cancelled_by, !.mechanic = Null]

\* ServiceRequest.cancel(reason, cancelled_by): the assignments before save()
cancel_assign(row, reason, cancelled_by) ==
    [row EXCEPT !.status = "cancelled", !.cancellation_reason = reason,
                !.cancelled_by = cancelled_by]

\* SoftDeleteModel.soft_delete: the assignment before save()
soft_delete_assign(row) == [row EXCEPT !.deleted = TRUE]

\* update_user_statistics (post_save of ServiceRequest)
update_user_statistics(st, row, created) ==
    LET s1 == IF created
              THEN [st EXCEPT ![row.customer].total_requests = @ + 1]
              ELSE st
        s2 == IF row.status = "completed"
              THEN [s1 EXCEPT ![row.customer].total_completed = @ + 1]
              ELSE s1
        s3 == IF row.status = "completed" /\ row.mechanic # Null
              THEN [s2 EXCEPT ![row.mechanic].total_completed = @ + 1]
              ELSE s2
    IN  IF row.status = "cancelled"
        THEN [s3 EXCEPT ![row.customer].total_cancelled = @ + 1]
        ELSE s3

\* ------------------------------------------------------------------- Init
NoFrame == [type |-> Null, latitude |-> Null, longitude |-> Null, message |-> Null]

\* a consumer that has not been instantiated
NoConn ==
    [pc |-> "new", user |-> AnonymousUser, request_id |-> "j0",
     service_request |-> NoRow, frame |-> NoFrame]

\* Mechanic: current_latitude, current_longitude, last_location_update are
\* null until the first update
NoPosition ==
    [current_latitude |-> Null, current_longitude |-> Null,
     last_location_update |-> NoTime]

\* no connection has been opened, the hub's tables are empty
HubIdle ==
    /\ conn = [k \in Conns |-> NoConn]
    /\ groups = [r \in Urls |-> {}]
    /\ channel = [k \in Conns |-> <<>>]
    /\ sent = [k \in Conns |-> <<>>]
    /\ location_updates = <<>>
    /\ chat_sessions = EmptyBag
    /\ chat_messages = <<>>
    /\ mechanic_profile = [m \in Mechanics |-> NoPosition]
    /\ received = [count |-> 0, pings |-> 0,
                   last |-> [conn |-> "none", frame |-> NoFrame],
                   events |-> <<>>]

Init ==
    /\ now = 0
    /\ db = [j \in Jobs |-> NoRow]
    /\ stats = [u \in Users |-> NoStats]
    /\ req = EmptyBag
    /\ sw = EmptyBag
    /\ winners = [j \in Jobs |-> <<>>]
    /\ retired = [j \in Jobs |-> 0]
    /\ HubIdle

\* ------------------------------------------------------------------ clock
Tick ==
    /\ now + TickStep <= MaxTime
    /\ now' = now + TickStep
    /\ UNCHANGED <<db, stats, req, sw, winners, retired, hub>>

\* ----------------------------------------------------------------- create
\* ServiceRequestViewSet.create: IsCustomer, ServiceRequestCreateSerializer,
\* INSERT with the defaults of the model, then the post_save signal.
new_row(u) ==
    [NoRow EXCEPT !.exists = TRUE, !.customer = u, !.status = "pending",
                  !.created_at = now]

\* User.can_request_service: is_active and not is_suspended
can_request_service(u) == u \notin InactiveUsers /\ u \notin SuspendedUsers

\* mutant: any role may create
create_response_any_role(u) ==
    IF ~can_request_service(u) THEN "bad_request" ELSE "ok"

\* IsCustomer, then ServiceRequestCreateSerializer.validate
create_response(u) ==
    IF role(u) # "customer" THEN "permission_denied"
    ELSE IF ~can_request_service(u) THEN "bad_request"
    ELSE "ok"

Create(u, j) ==
    /\ create_response(u) = "ok"
    /\ ~db[j].exists
    /\ db' = [db EXCEPT ![j] = new_row(u)]
    /\ stats' = update_user_statistics(stats, new_row(u), TRUE)
    /\ UNCHANGED <<now, req, sw, winners, retired, hub>>

\* ------------------------------------------------------------ HTTP actions
\* a request that is answered without a save(): nothing changes
Refused == UNCHANGED vars

\* a request that holds a modified instance and is about to save() it
Hold(op, u, j, copy) ==
    /\ BagCardinality(req) + BagCardinality(sw) < MaxConcurrent
    /\ req' = req (+) SetToBag({[op |-> op, user |-> u, job |-> j, copy |-> copy]})
    /\ UNCHANGED <<now, db, stats, sw, winners, retired, hub>>

\* views.accept, the checks between get_object() and save()
accept_outcome(row, eta) ==
    IF now - row.created_at > timeout_seconds THEN "expired"
    ELSE IF row.status # "pending" THEN "not_pending"
    ELSE IF row.mechanic # Null THEN "already_accepted"
    ELSE IF eta = 0 THEN "eta_required"
    ELSE "ok"

\* views.accept up to the save(): IsMechanic, get_object(), the checks
accept_response(u, row, eta) ==
    IF role(u) # "mechanic" THEN "permission_denied"
    ELSE IF ~get_queryset(u, row) THEN "not_found"
    ELSE accept_outcome(row, eta)

BeginAccept(u, j, eta) ==
    /\ accept_response(u, db[j], eta) = "ok"
    /\ Hold("accept", u, j, accept_assign(db[j], u, eta))

\* ServiceRequest.start_service, the check before the assignment; the view
\* does not catch the ValidationError
start_outcome(row) ==
    IF row.status # "accepted" THEN "validation_error" ELSE "ok"

\* views.start up to the save(): get_object() with IsAssignedMechanic
start_response(u, row) ==
    IF ~get_queryset(u, row) THEN "not_found"
    ELSE IF ~IsAssignedMechanic(u, row) THEN "permission_denied"
    ELSE start_outcome(row)

BeginStart(u, j) ==
    /\ start_response(u, db[j]) = "ok"
    /\ Hold("start", u, j, start_assign(db[j]))

\* views.complete calls service_request.complete(); the model defines
\* complete_service only, so the call raises AttributeError
complete_outcome(row) == "attribute_error"

\* views.complete: get_object() with IsAssignedMechanic, then the call
complete_response(u, row) ==
    IF ~get_queryset(u, row) THEN "not_found"
    ELSE IF ~IsAssignedMechanic(u, row) THEN "permission_denied"
    ELSE complete_outcome(row)

\* no call gets as far as a save(): every step of this action is a refusal
BeginComplete(u, j) ==
    IF complete_response(u, db[j]) = "ok"
    THEN Hold("complete", u, j, db[j])
    ELSE Refused

\* mutant: a cancelled request may be cancelled again
cancel_outcome_completed_only(row) ==
    IF row.status = "completed" THEN "validation_error" ELSE "ok"

\* ServiceRequest.cancel, the check before the assignments; the view does
\* not catch the ValidationError
cancel_outcome(row) ==
    IF row.status \in {"completed", "cancelled"} THEN "validation_error" ELSE "ok"

\* request.data.get('reason', 'No reason provided.')
reason_of(input) == IF input = NoReason THEN "No reason provided." ELSE input

\* views.cancel calls cancel(cancelled_by, reason) on a method declared
\* cancel(reason, cancelled_by)
view_cancel(row, u, input) == cancel_assign(row, role(u), reason_of(input))

\* views.cancel up to the save(): get_object() with IsServiceRequestOwner
cancel_response(u, row) ==
    IF ~get_queryset(u, row) THEN "not_found"
    ELSE IF ~IsServiceRequestOwner(u, row) THEN "permission_denied"
    ELSE cancel_outcome(row)

BeginCancel(u, j, input) ==
    /\ cancel_response(u, db[j]) = "ok"
    /\ Hold("cancel", u, j, view_cancel(db[j], u, input))

\* instance.save(): UPDATE of every column from the instance, post_save,
\* then the 200 response
SaveRequest(q) ==
    /\ BagIn(q, req)
    /\ db' = [db EXCEPT ![q.job] = q.copy]
    /\ stats' = update_user_statistics(stats, q.copy, FALSE)
    /\ req' = req (-) SetToBag({q})
    /\ winners' = IF q.op = "accept"
                  THEN [winners EXCEPT ![q.job] = Append(@, q.user)]
                  ELSE winners
    /\ UNCHANGED <<now, sw, retired, hub>>

\* ---------------------------------------------------------------- sweeper
\* one run replaced by its next position
Step(run, next) == (sw (-) SetToBag({run})) (+) SetToBag({next})

expired_requests(cutoff_time) == {j \in Jobs : expired_filter(db[j], cutoff_time)}

\* delete_expired_pending_requests up to its first query: cutoff_time, then
\* count = expired_requests.count()
SweepStart ==
    /\ BagCardinality(req) + BagCardinality(sw) < MaxConcurrent
    /\ sw' = sw (+) SetToBag({
          [pc |-> "select", cutoff_time |-> now - timeout_seconds,
           count |-> Cardinality(expired_requests(now - timeout_seconds)),
           counted |-> expired_requests(now - timeout_seconds),
           todo |-> <<>>, wrote |-> {},
           startNonPending |->
               {j \in Jobs : db[j].exists /\ db[j].status # "pending"}]})
    /\ UNCHANGED <<now, db, stats, req, winners, retired, hub>>

\* Meta.ordering = ['-created_at']; rows of equal created_at come in any order
ordered(seq) ==
    \A i, k \in 1..Len(seq) : i < k => db[seq[i]].created_at >= db[seq[k]].created_at

orderings(S) ==
    {seq \in [1..Cardinality(S) -> S] :
        (\A j \in S : \E i \in 1..Cardinality(S) : seq[i] = j) /\ ordered(seq)}

\* for req in expired_requests: the queryset is evaluated a second time
SweepSelect(run) ==
    /\ BagIn(run, sw)
    /\ run.pc = "select"
    /\ \E seq \in orderings(expired_requests(run.cutoff_time)) :
          sw' = Step(run, [run EXCEPT
                   !.pc = "delete",
                   !.todo = [i \in 1..Len(seq) |->
                               [job |-> seq[i], copy |-> db[seq[i]]]]])
    /\ UNCHANGED <<now, db, stats, req, winners, retired, hub>>

\* req.soft_delete(): deleted_at = now, save() of the whole instance
SweepDelete(run) ==
    /\ BagIn(run, sw)
    /\ run.pc = "delete"
    /\ run.todo # <<>>
    /\ LET item == Head(run.todo)
           row == soft_delete_assign(item.copy)
       IN  /\ db' = [db EXCEPT ![item.job] = row]
           /\ stats' = update_user_statistics(stats, row, FALSE)
           /\ retired' = [retired EXCEPT ![item.job] = @ + 1]
           /\ sw' = Step(run, [run EXCEPT !.todo = Tail(@),
                                          !.wrote = @ \cup {item.job}])
    /\ UNCHANGED <<now, req, winners, hub>>

\* req.soft_delete() raises (the save fails): nothing in the loop catches
\* it, the exception leaves delete_expired_pending_requests
SweepDeleteFails(run) ==
    /\ BagIn(run, sw)
    /\ run.pc = "delete"
    /\ run.todo # <<>>
    /\ sw' = sw (-) SetToBag({run})
    /\ UNCHANGED <<now, db, stats, req, winners, retired, hub>>

\* return count
SweepReturn(run) ==
    /\ BagIn(run, sw)
    /\ run.pc = "delete"
    /\ run.todo = <<>>
    /\ sw' = sw (-) SetToBag({run})
    /\ UNCHANGED <<now, db, stats, req, winners, retired, hub>>

\* -------------------------------------------------------------------- Next
Next ==
    \/ Tick
    \/ \E u \in Users, j \in NewJobs : Create(u, j)
    \/ \E u \in Users, j \in Jobs, eta \in Etas : BeginAccept(u, j, eta)
    \/ \E u \in Users, j \in Jobs : BeginStart(u, j)
    \/ \E u \in Users, j \in Jobs : BeginComplete(u, j)
    \/ \E u \in Users, j \in Jobs, input \in ReasonInputs : BeginCancel(u, j, input)
    \/ \E q \in BagToSet(req) : SaveRequest(q)
    \/ SweepStart
    \/ \E run \in BagToSet(sw) : SweepSelect(run)
    \/ \E run \in BagToSet(sw) : SweepDelete(run)
    \/ \E run \in BagToSet(sw) : SweepReturn(run)

Spec == Init /\ [][Next]_vars

\* the job store with a database that may be unavailable for a write
FaultNext ==
    \/ Next
    \/ \E run \in BagToSet(sw) : SweepDeleteFails(run)

SpecFault == Init /\ [][FaultNext]_vars

\* ====================================================================== hub
\* consumers.ServiceRequestConsumer.  A consumer handles one message at a
\* time (the websocket's frames and the events of its channel); an action
\* below is the code of a handler from one await to the next.

\* mutant: every caller counts as authenticated
is_authenticated_anyone(u) == TRUE

\* self.user.is_authenticated
is_authenticated(u) == u # AnonymousUser

\* ServiceRequest.objects...get(id=request_id): the manager hides the rows
\* that are soft-deleted
service_request_found(r) == to_python(r) \in Jobs /\ active(db[to_python(r)])

\* mutant: a session row is inserted at every lookup
get_or_create_inserts(sessions, j) == sessions (+) SetToBag({j})

\* ChatSession.objects.get_or_create(service_request=sr); service_request is
\* a OneToOneField, so of two racing inserts one fails and reads the other's
get_or_create(sessions, j) ==
    IF BagIn(j, sessions) THEN sessions ELSE sessions (+) SetToBag({j})

\* mutant: the administrator is let in as well
is_participant_or_admin(u, row) ==
    row.customer = u \/ row.mechanic = u \/ role(u) = "admin"

\* connect: is_customer or is_mechanic
is_participant(u, row) == row.customer = u \/ row.mechanic = u

\* mutant: a frame goes to every member of the sender's group
send_to_group(k, frame) ==
    [c \in Conns |->
        IF c = k \/ c \in groups[conn[k].request_id]
        THEN Append(sent[c], frame) ELSE sent[c]]

\* self.send(text_data=json.dumps(frame)): to the client of this connection
send(k, frame) == [sent EXCEPT ![k] = Append(@, frame)]

\* mutant: the event goes to the members of every group
group_send_everywhere(k, event) ==
    [c \in Conns |->
        IF \E r \in Urls : c \in groups[r]
        THEN Append(channel[c], event) ELSE channel[c]]

\* mutant: the event jumps the queue of every member
group_send_in_front(k, event) ==
    [c \in Conns |->
        IF c \in groups[conn[k].request_id]
        THEN <<event>> \o channel[c] ELSE channel[c]]

\* channel_layer.group_send(self.room_group_name, event)
group_send(k, event) ==
    [c \in Conns |->
        IF c \in groups[conn[k].request_id]
        THEN Append(channel[c], event) ELSE channel[c]]

connection_established(r) ==
    [type |-> "connection_established", request_id |-> r]

error_frame == [type |-> "error", message |-> "Invalid message type."]

\* connect, up to the first await: the authentication check
Connect(k, u, r) ==
    /\ conn[k].pc = "new"
    /\ conn' = [conn EXCEPT ![k] =
                  [@ EXCEPT !.user = u, !.request_id = r,
                            !.pc = IF is_authenticated(u)
                                   THEN "lookup" ELSE "closed"]]
    /\ UNCHANGED <<now, store, groups, channel, sent, location_updates,
                   chat_sessions, chat_messages, mechanic_profile, received>>

\* get_service_request_and_session (get, then ChatSession get_or_create),
\* then the participant check
Lookup(k) ==
    /\ conn[k].pc = "lookup"
    /\ LET r == conn[k].request_id
           u == conn[k].user
       IN  IF ~service_request_found(r)
           THEN /\ conn' = [conn EXCEPT ![k].pc = "closed"]
                /\ UNCHANGED chat_sessions
           ELSE /\ chat_sessions' = get_or_create(chat_sessions, to_python(r))
                /\ conn' = [conn EXCEPT ![k] =
                              [@ EXCEPT !.service_request = db[to_python(r)],
                                        !.pc = IF is_participant(u, db[to_python(r)])
                                               THEN "group_add"
                                               ELSE "closed"]]
    /\ UNCHANGED <<now, store, groups, channel, sent, location_updates,
                   chat_messages, mechanic_profile, received>>

\* channel_layer.group_add(self.room_group_name, self.channel_name)
GroupAdd(k) ==
    /\ conn[k].pc = "group_add"
    /\ groups' = [groups EXCEPT ![conn[k].request_id] = @ \cup {k}]
    /\ conn' = [conn EXCEPT ![k].pc = "accept"]
    /\ UNCHANGED <<now, store, channel, sent, location_updates,
                   chat_sessions, chat_messages, mechanic_profile, received>>

\* self.accept(), then the connection_established frame
AcceptSend(k) ==
    /\ conn[k].pc = "accept"
    /\ sent' = send(k, connection_established(conn[k].request_id))
    /\ conn' = [conn EXCEPT ![k].pc = "joined"]
    /\ UNCHANGED <<now, store, groups, channel, location_updates,
                   chat_sessions, chat_messages, mechanic_profile, received>>

\* mutant: the whole group is emptied
group_discard_everyone(k) == [groups EXCEPT ![conn[k].request_id] = {}]

\* channel_layer.group_discard(self.room_group_name, self.channel_name)
group_discard(k) == [groups EXCEPT ![conn[k].request_id] = @ \ {k}]

\* disconnect: group_discard
Disconnect(k) ==
    /\ conn[k].pc = "joined"
    /\ groups' = group_discard(k)
    /\ conn' = [conn EXCEPT ![k].pc = "closed"]
    /\ UNCHANGED <<now, store, channel, sent, location_updates,
                   chat_sessions, chat_messages, mechanic_profile, received>>

\* the frames a client may send: JSON objects
Frames ==
    {[NoFrame EXCEPT !.type = "location_update", !.latitude = c[1],
                     !.longitude = c[2]] : c \in Coordinates}
    \cup {[NoFrame EXCEPT !.type = "chat_message", !.message = m] :
             m \in Messages}
    \cup {[NoFrame EXCEPT !.type = "ping"], NoFrame}

\* mutant: only the latitude is looked at
coordinate_absent_latitude_only(f) == f.latitude = Null

\* handle_location_update: latitude is None or longitude is None
coordinate_absent(f) == f.latitude = Null \/ f.longitude = Null

\* mutant: only an absent message counts as empty
message_empty_none_only(m) == m = Null

\* handle_chat_message: not message_text
message_empty(m) == m = Null \/ m = ""

\* mutant: an unknown type is dropped without an answer
receive_branch_no_error(f) ==
    IF f.type = "location_update"
    THEN IF coordinate_absent(f) THEN "return" ELSE "save_location"
    ELSE IF f.type = "chat_message"
    THEN IF message_empty(f.message) THEN "return" ELSE "save_chat"
    ELSE "return"

\* receive and the handler it calls, up to the first await
receive_branch(f) ==
    IF f.type = "location_update"
    THEN IF coordinate_absent(f) THEN "return" ELSE "save_location"
    ELSE IF f.type = "chat_message"
    THEN IF message_empty(f.message) THEN "return" ELSE "save_chat"
    ELSE "error"

\* a location frame that carries two numbers
valid_ping(f) ==
    f.type = "location_update" /\ f.latitude \in Numbers /\ f.longitude \in Numbers

Receive(k, f) ==
    /\ conn[k].pc = "joined"
    /\ received.count < MaxFrames
    /\ received' = [count |-> received.count + 1,
                    pings |-> received.pings + (IF valid_ping(f) THEN 1 ELSE 0),
                    last |-> [conn |-> k, frame |-> f],
                    events |-> IF receive_branch(f) \in {"save_location", "save_chat"}
                               THEN Append(received.events, [conn |-> k, frame |-> f])
                               ELSE received.events]
    /\ CASE receive_branch(f) = "return" -> UNCHANGED <<conn, sent>>
         [] receive_branch(f) = "error" ->
              /\ sent' = send(k, error_frame)
              /\ UNCHANGED conn
         [] OTHER ->
              /\ conn' = [conn EXCEPT ![k] =
                            [@ EXCEPT !.pc = receive_branch(f), !.frame = f]]
              /\ UNCHANGED sent
    /\ UNCHANGED <<now, store, groups, channel, location_updates,
                   chat_sessions, chat_messages, mechanic_profile>>

\* FloatField: float(value) raises for a value that is not a number, and the
\* column does not take NULL
is_number(v) == v \in Numbers

\* mutant: the position of every mechanic is written
position_after_any(u, f) ==
    [m \in Mechanics |->
        [current_latitude |-> f.latitude, current_longitude |-> f.longitude,
         last_location_update |-> now]]

\* save_location_update, step 2: if user.is_mechanic()
position_after(u, f) ==
    IF role(u) = "mechanic"
    THEN [mechanic_profile EXCEPT ![u] =
            [current_latitude |-> f.latitude, current_longitude |-> f.longitude,
             last_location_update |-> now]]
    ELSE mechanic_profile

\* mutant: the two coordinates change places
new_location_update_swapped(k) ==
    [service_request |-> to_python(conn[k].request_id), user |-> conn[k].user,
     latitude |-> conn[k].frame.longitude,
     longitude |-> conn[k].frame.latitude]

\* LocationUpdate.objects.create(...)
new_location_update(k) ==
    [service_request |-> to_python(conn[k].request_id), user |-> conn[k].user,
     latitude |-> conn[k].frame.latitude,
     longitude |-> conn[k].frame.longitude]

\* mutant: storing a sample also marks the job as started
SaveLocation_starting_job(k) ==
    /\ conn[k].pc = "save_location"
    /\ db' = [db EXCEPT ![to_python(conn[k].request_id)].status = "in_progress"]
    /\ location_updates' = Append(location_updates, new_location_update(k))
    /\ mechanic_profile' = position_after(conn[k].user, conn[k].frame)
    /\ conn' = [conn EXCEPT ![k].pc = "send_location"]
    /\ UNCHANGED <<now, stats, req, sw, winners, retired, groups, channel,
                   sent, chat_sessions, chat_messages, received>>

\* save_location_update; an exception leaves receive and ends the consumer
\* without group_discard
SaveLocation(k) ==
    /\ conn[k].pc = "save_location"
    /\ IF is_number(conn[k].frame.latitude) /\ is_number(conn[k].frame.longitude)
       THEN /\ location_updates' = Append(location_updates, new_location_update(k))
            /\ mechanic_profile' = position_after(conn[k].user, conn[k].frame)
            /\ conn' = [conn EXCEPT ![k].pc = "send_location"]
       ELSE /\ conn' = [conn EXCEPT ![k] =
                          [@ EXCEPT !.pc = "crashed", !.frame = NoFrame]]
            /\ UNCHANGED <<location_updates, mechanic_profile>>
    /\ UNCHANGED <<now, store, groups, channel, sent, chat_sessions,
                   chat_messages, received>>

\* save_location_update when the database is unavailable: objects.create
\* raises, nothing is stored, the exception leaves receive
SaveLocationUnavailable(k) ==
    /\ conn[k].pc = "save_location"
    /\ valid_ping(conn[k].frame)
    /\ conn' = [conn EXCEPT ![k] = [@ EXCEPT !.pc = "crashed", !.frame = NoFrame]]
    /\ UNCHANGED <<now, store, groups, channel, sent, location_updates,
                   chat_sessions, chat_messages, mechanic_profile, received>>

location_broadcast_event(k) ==
    [type |-> "location.broadcast", latitude |-> conn[k].frame.latitude,
     longitude |-> conn[k].frame.longitude, user_id |-> conn[k].user,
     user_role |-> role(conn[k].user), timestamp |-> now]

\* handle_location_update, after the save: group_send
GroupSendLocation(k) ==
    /\ conn[k].pc = "send_location"
    /\ channel' = group_send(k, location_broadcast_event(k))
    /\ conn' = [conn EXCEPT ![k] = [@ EXCEPT !.pc = "joined", !.frame = NoFrame]]
    /\ UNCHANGED <<now, store, groups, sent, location_updates, chat_sessions,
                   chat_messages, mechanic_profile, received>>

\* ChatMessage.objects.create(session, sender, message)
new_chat_message(k) ==
    [session |-> to_python(conn[k].request_id), sender |-> conn[k].user,
     message |-> conn[k].frame.message]

\* ChatMessageSerializer(message).data
rendered(m) ==
    [session |-> m.session, sender |-> m.sender, sender_role |-> role(m.sender),
     message |-> m.message]

\* save_chat_message
SaveChat(k) ==
    /\ conn[k].pc = "save_chat"
    /\ chat_messages' = Append(chat_messages, new_chat_message(k))
    /\ conn' = [conn EXCEPT ![k].pc = "send_chat"]
    /\ UNCHANGED <<now, store, groups, channel, sent, location_updates,
                   chat_sessions, mechanic_profile, received>>

chat_broadcast_event(k) ==
    [type |-> "chat.broadcast", message |-> rendered(new_chat_message(k))]

\* handle_chat_message, after the save: group_send
GroupSendChat(k) ==
    /\ conn[k].pc = "send_chat"
    /\ channel' = group_send(k, chat_broadcast_event(k))
    /\ conn' = [conn EXCEPT ![k] = [@ EXCEPT !.pc = "joined", !.frame = NoFrame]]
    /\ UNCHANGED <<now, store, groups, sent, location_updates, chat_sessions,
                   chat_messages, mechanic_profile, received>>

\* location_broadcast, chat_broadcast: the frame made from an event
frame_of(e) ==
    IF e.type = "location.broadcast"
    THEN [type |-> "location_update", user_id |-> e.user_id,
          user_role |-> e.user_role, latitude |-> e.latitude,
          longitude |-> e.longitude, timestamp |-> e.timestamp]
    ELSE [type |-> "chat_message", message |-> e.message]

\* mutant: events are dispatched while connect is still running
Deliver_while_connecting(k) ==
    /\ conn[k].pc \in {"accept", "joined"}
    /\ channel[k] # <<>>
    /\ sent' = send(k, frame_of(Head(channel[k])))
    /\ channel' = [channel EXCEPT ![k] = Tail(@)]
    /\ UNCHANGED <<now, store, conn, groups, location_updates, chat_sessions,
                   chat_messages, mechanic_profile, received>>

\* the consumer takes the next event of its channel
Deliver(k) ==
    /\ conn[k].pc = "joined"
    /\ channel[k] # <<>>
    /\ sent' = send(k, frame_of(Head(channel[k])))
    /\ channel' = [channel EXCEPT ![k] = Tail(@)]
    /\ UNCHANGED <<now, store, conn, groups, location_updates, chat_sessions,
                   chat_messages, mechanic_profile, received>>

\* rows of the job table that the job store can leave behind: a pending
\* job, a job accepted by m1, a pending job retired by the sweeper
PendingRow ==
    [NoRow EXCEPT !.exists = TRUE, !.customer = "c1", !.status = "pending"]

HubRows ==
    {PendingRow, accept_assign(PendingRow, "m1", 10),
     soft_delete_assign(PendingRow)}

\* one job, in each of these states
HubInit ==
    /\ now = 0
    /\ db \in {[j \in Jobs |-> IF j \in NewJobs THEN row ELSE NoRow] :
                  row \in HubRows}
    /\ stats = [u \in Users |-> NoStats]
    /\ req = EmptyBag
    /\ sw = EmptyBag
    /\ winners = [j \in Jobs |-> <<>>]
    /\ retired = [j \in Jobs |-> 0]
    /\ HubIdle

HubNext ==
    \/ \E k \in Conns, u \in Callers, r \in RequestIds : Connect(k, u, r)
    \/ \E k \in Conns : Lookup(k)
    \/ \E k \in Conns : GroupAdd(k)
    \/ \E k \in Conns : AcceptSend(k)
    \/ \E k \in Conns : Disconnect(k)
    \/ \E k \in Conns, f \in Frames : Receive(k, f)
    \/ \E k \in Conns : SaveLocation(k)
    \/ \E k \in Conns : GroupSendLocation(k)
    \/ \E k \in Conns : SaveChat(k)
    \/ \E k \in Conns : GroupSendChat(k)
    \/ \E k \in Conns : Deliver(k)

SpecHub == HubInit /\ [][HubNext]_vars

\* the hub with a database that may be unavailable for a write
HubOutageNext ==
    \/ HubNext
    \/ \E k \in Conns : SaveLocationUnavailable(k)

SpecHubOutage == HubInit /\ [][HubOutageNext]_vars

\* ------------------------------------------------------------------- rooms
\* The hub over two accepted jobs of the customer c1, j1 bound to m1 and j2
\* to m2; a client opens its connection with any URL of these jobs.
RoomRows ==
    [j \in Jobs |->
        accept_assign(PendingRow, IF j = "j1" THEN "m1" ELSE "m2", 10)]

RoomUrls == {"j1", "j-1", "j2"}
RoomCallers == Customers \cup Mechanics
RoomFrames ==
    {[NoFrame EXCEPT !.type = "chat_message", !.message = "hi"],
     [NoFrame EXCEPT !.type = "location_update", !.latitude = "31.5",
                     !.longitude = "74.3"]}

RoomsInit ==
    /\ now = 0
    /\ db = RoomRows
    /\ stats = [u \in Users |-> NoStats]
    /\ req = EmptyBag
    /\ sw = EmptyBag
    /\ winners = [j \in Jobs |-> <<>>]
    /\ retired = [j \in Jobs |-> 0]
    /\ HubIdle

RoomsNext ==
    \/ \E k \in Conns, u \in RoomCallers, r \in RoomUrls : Connect(k, u, r)
    \/ \E k \in Conns : Lookup(k)
    \/ \E k \in Conns : GroupAdd(k)
    \/ \E k \in Conns : AcceptSend(k)
    \/ \E k \in Conns : Disconnect(k)
    \/ \E k \in Conns, f \in RoomFrames : Receive(k, f)
    \/ \E k \in Conns : SaveLocation(k)
    \/ \E k \in Conns : GroupSendLocation(k)
    \/ \E k \in Conns : SaveChat(k)
    \/ \E k \in Conns : GroupSendChat(k)
    \/ \E k \in Conns : Deliver(k)

SpecRooms == RoomsInit /\ [][RoomsNext]_vars

\* -------------------------------------------------------------------- live
\* The job store and the connection handshake side by side: a job is
\* created and accepted while clients connect to it.
LiveNext ==
    \/ \E u \in Users, j \in NewJobs : Create(u, j)
    \/ \E u \in Users, j \in Jobs, eta \in Etas : BeginAccept(u, j, eta)
    \/ \E q \in BagToSet(req) : SaveRequest(q)
    \/ \E k \in Conns, u \in Callers, r \in RequestIds : Connect(k, u, r)
    \/ \E k \in Conns : Lookup(k)
    \/ \E k \in Conns : GroupAdd(k)
    \/ \E k \in Conns : AcceptSend(k)
    \/ \E k \in Conns : Disconnect(k)

SpecLive == Init /\ [][LiveNext]_vars


\* =================================================================== claims

BoundStatuses == {"accepted", "in_progress", "completed"}

\* C1: however many providers accept the same pending job concurrently,
\* exactly one accept succeeds and the job stays bound to that winner: no
\* later-finishing accept overwrites the provider bound by an earlier one.
C1_AcceptExactlyOneWinner ==
    \A j \in Jobs :
        /\ Len(winners[j]) <= 1
        /\ (Len(winners[j]) >= 1 /\ db[j].mechanic # Null)
               => db[j].mechanic = winners[j][1]

\* C2: in every reachable state no job has status accepted with provider
\* null and no job has status pending with provider non-null.
C2_AcceptedBoundPendingUnbound ==
    \A j \in Jobs :
        db[j].exists =>
            /\ ~(db[j].status = "accepted" /\ db[j].mechanic = Null)
            /\ ~(db[j].status = "pending" /\ db[j].mechanic # Null)

\* C2 witness: a job that was accepted and has then been written back by a
\* sweeper run is pending again, and unbound.
C2_Witness ==
    \E j \in Jobs :
        /\ Len(winners[j]) >= 1
        /\ retired[j] >= 1
        /\ db[j].status = "pending"

\* C3 as stated: a job's provider is non-null if and only if its status is
\* accepted, in_progress or completed, so a cancelled job has no provider.
C3_ProviderIffBoundStatus ==
    \A j \in Jobs :
        db[j].exists => (db[j].mechanic # Null <=> db[j].status \in BoundStatuses)

\* C3 amended: the provider is non-null whenever the status is accepted,
\* in_progress or completed and null whenever it is pending; cancel does not
\* clear the provider: the instance a cancel request is about to save has
\* status cancelled and the provider of the row it read.
C3_ProviderKeptByCancel ==
    /\ [](\A j \in Jobs :
            db[j].exists =>
                /\ (db[j].status \in BoundStatuses => db[j].mechanic # Null)
                /\ (db[j].status = "pending" => db[j].mechanic = Null))
    /\ [][\A q \in BagToSet(req') :
            (q.op = "cancel" /\ CopiesIn(q, req') > CopiesIn(q, req))
                => /\ q.copy.status = "cancelled"
                   /\ q.copy.mechanic = db[q.job].mechanic]_vars

\* C3 witness: a cancelled job that still has its provider bound.
C3_Witness ==
    \E j \in Jobs : db[j].status = "cancelled" /\ db[j].mechanic # Null

StatusEdges ==
    {<<"pending", "accepted">>, <<"accepted", "in_progress">>,
     <<"in_progress", "completed">>, <<"pending", "cancelled">>,
     <<"accepted", "cancelled">>, <<"in_progress", "cancelled">>}

\* C4: every change of a job's stored status follows one of the edges
\* pending->accepted, accepted->in_progress, in_progress->completed or
\* {pending, accepted, in_progress}->cancelled; a completed or cancelled
\* job never changes status again.
C4_StatusFollowsEdges ==
    [][\A j \in Jobs :
         (db[j].exists /\ db'[j].status # db[j].status)
             => <<db[j].status, db'[j].status>> \in StatusEdges]_vars

\* C5: a sweeper run on an expired pending job leaves it cancelled, and
\* the job is retired exactly once, also when two runs execute concurrently.
C5_SweptOnceAndCancelled ==
    \A j \in Jobs :
        /\ retired[j] <= 1
        /\ retired[j] >= 1 => db[j].status = "cancelled"

\* C6: the sweeper re-checks status = pending at the moment it writes: when
\* an accept has committed before the sweeper's write, the sweeper does not
\* retire the job and leaves its status, provider and ETA as they are.
C6_SweeperSparesAcceptedJob ==
    [][\A j \in Jobs :
         (db[j].status = "accepted" /\ ~db[j].deleted)
             => /\ retired'[j] = retired[j]
                /\ (\E run \in BagToSet(sw) : CopiesIn(run, sw') < CopiesIn(run, sw))
                       => db'[j] = db[j]]_vars

\* C7: a sweeper run that starts when a job's status is not pending never
\* counts, selects or writes that job.
C7_SweepSkipsNonPending ==
    \A run \in BagToSet(sw) :
        run.startNonPending \cap
            (run.counted \cup run.wrote
                \cup {run.todo[i].job : i \in 1..Len(run.todo)}) = {}

\* C7 witness: a run that started on an accepted job older than the window
\* has gone through its count, its select and its loop.
C7_Witness ==
    \E run \in BagToSet(sw) :
        /\ run.pc = "delete"
        /\ run.todo = <<>>
        /\ \E j \in run.startNonPending :
              /\ db[j].created_at < run.cutoff_time
              /\ db[j].status = "accepted"

\* C8: start on a job whose status is pending fails with a state-conflict
\* error, not with an authorization or a not-found error.
C8_StartOnPendingIsStateConflict ==
    \A u \in Mechanics, j \in Jobs :
        (active(db[j]) /\ db[j].status = "pending")
            => start_response(u, db[j]) = "validation_error"

\* C9: start and complete by a provider that is not the one bound to the
\* job fail with an authorization error.
C9_OtherProviderIsForbidden ==
    \A u \in Mechanics, j \in Jobs :
        (active(db[j]) /\ db[j].mechanic # u)
            => /\ start_response(u, db[j]) = "permission_denied"
               /\ complete_response(u, db[j]) = "permission_denied"

\* C10: an accept on a job that already has a provider bound is rejected
\* with the reason 'already bound' (here for a job still inside its window).
C10_BoundJobRejectsAsAlreadyBound ==
    \A u \in Mechanics, j \in Jobs, eta \in Etas :
        (active(db[j]) /\ db[j].mechanic # Null
            /\ now - db[j].created_at <= timeout_seconds)
            => accept_response(u, db[j], eta) = "already_accepted"

\* C11: an accept on a pending job older than the acceptance window is
\* rejected with the expired reason, whether or not the sweeper has run on
\* the job (a refused accept saves nothing, so the job is left as it is).
C11_ExpiredAcceptIsRejectedAsExpired ==
    \A u \in Mechanics, j \in Jobs, eta \in Etas :
        (db[j].exists /\ db[j].status = "pending"
            /\ now - db[j].created_at > timeout_seconds)
            => accept_response(u, db[j], eta) = "expired"

\* ------------------------------------------------------------ hub claims
HubUntouched(k) ==
    /\ UNCHANGED <<groups, channel, sent, location_updates, chat_sessions,
                   chat_messages, mechanic_profile, store>>
    /\ conn' = conn
    /\ conn[k].pc = "joined"

\* C12: a location_update frame in which latitude or longitude is absent
\* produces no broadcast, stores no sample, does not change a position,
\* sends nothing to the sender and leaves the sender joined.
C12_AbsentCoordinateIsDropped ==
    [][\A k \in Conns, f \in Frames :
         (/\ f.type = "location_update"
          /\ (f.latitude = Null \/ f.longitude = Null)
          /\ Receive(k, f)) => HubUntouched(k)]_vars

\* C12 witness: the last frame received had no longitude; its sender is
\* still joined next to a second member, nothing was stored or queued.
C12_Witness ==
    \E k \in Conns :
        /\ received.last.conn = k
        /\ received.last.frame.type = "location_update"
        /\ received.last.frame.longitude = Null
        /\ conn[k].pc = "joined"
        /\ groups[conn[k].request_id] = Conns
        /\ location_updates = <<>>
        /\ \A c \in Conns : channel[c] = <<>> /\ Len(sent[c]) = 1

InNoGroup(k) == \A r \in Urls : k \notin groups[r]

\* C13: a connection attempt by an unauthenticated caller is closed with no
\* message sent to it, and the connection is never in any broadcast group.
C13_UnauthenticatedIsClosedSilently ==
    \A k \in Conns :
        (conn[k].pc # "new" /\ conn[k].user = AnonymousUser)
            => /\ conn[k].pc = "closed"
               /\ sent[k] = <<>>
               /\ channel[k] = <<>>
               /\ InNoGroup(k)

\* C13 witness: an unauthenticated attempt on an existing job has been
\* closed while a participant of that job is joined.
C13_Witness ==
    \E k, c \in Conns :
        /\ conn[k].user = AnonymousUser
        /\ conn[k].pc = "closed"
        /\ conn[k].request_id \in Jobs
        /\ conn[c].pc = "joined"
        /\ conn[c].request_id = conn[k].request_id

\* positions of a consumer after the participant check has let it in
Admitted == {"group_add", "accept", "joined", "save_location", "send_location",
             "save_chat", "send_chat", "crashed"}

\* C14: a connection is let in, and is in the group of job J, only if the
\* row of J read at connection time has the caller as customer or as bound
\* provider; every other authenticated caller (administrator, provider not
\* bound to J, any caller when J does not exist) is closed and in no group.
C14_OnlyParticipantsJoin ==
    \A k \in Conns :
        LET u == conn[k].user
            r == conn[k].request_id
            row == conn[k].service_request
        IN  /\ (conn[k].pc \in Admitted \/ ~InNoGroup(k))
                => /\ to_python(r) \in Jobs
                   /\ row = db[to_python(r)]
                   /\ row.exists /\ ~row.deleted
                   /\ (row.customer = u \/ row.mechanic = u)
                   /\ \A q \in Urls : k \in groups[q] => q = r
            /\ (/\ conn[k].pc \notin {"new", "lookup"}
                /\ u # AnonymousUser
                /\ ~(/\ to_python(r) \in Jobs
                     /\ db[to_python(r)].exists /\ ~db[to_python(r)].deleted
                     /\ (db[to_python(r)].customer = u
                            \/ db[to_python(r)].mechanic = u)))
                => conn[k].pc = "closed" /\ InNoGroup(k) /\ sent[k] = <<>>

\* C14 witness: on a job accepted by m1, m1 is joined and an attempt by the
\* administrator or by the other mechanic has been closed.
C14_Witness ==
    \E k, c \in Conns :
        /\ conn[k].pc = "joined" /\ conn[k].user = "m1"
        /\ conn[c].pc = "closed" /\ conn[c].user \in {"a1", "m2"}
        /\ conn[c].request_id = conn[k].request_id
        /\ conn[c].service_request.mechanic = "m1"

Acks(k) ==
    {i \in 1..Len(sent[k]) : sent[k][i].type = "connection_established"}

\* C15: a successful join registers the connection in the job's group and
\* sends exactly one connection_established frame, to the joining connection
\* only; no other connection receives a frame because of the join.
C15_JoinAcknowledgedOnce ==
    /\ [](\A k \in Conns :
            Cardinality(Acks(k)) =
                IF conn[k].pc \in Admitted \ {"group_add", "accept"}
                   \/ (conn[k].pc = "closed" /\ sent[k] # <<>>)
                THEN 1 ELSE 0)
    /\ [][\A k \in Conns :
            /\ (conn[k].pc = "group_add" /\ conn'[k].pc # "group_add")
                => /\ k \in groups'[conn[k].request_id]
                   /\ sent' = sent /\ channel' = channel
            /\ (conn[k].pc = "accept" /\ conn'[k].pc # "accept")
                => /\ conn'[k].pc = "joined"
                   /\ k \in groups'[conn[k].request_id]
                   /\ sent'[k] = Append(sent[k],
                                        connection_established(conn[k].request_id))
                   /\ \A c \in Conns \ {k} : sent'[c] = sent[c]
                   /\ channel' = channel]_vars

\* C15 witness: two connections have joined the same job, each with its
\* own single acknowledgement.
C15_Witness ==
    /\ \A k \in Conns : conn[k].pc = "joined" /\ conn[k].request_id = "j1"
    /\ \A k \in Conns : sent[k] = <<connection_established("j1")>>
    /\ groups["j1"] = Conns

\* C16: every location_update frame with both coordinates present, sent by
\* a joined connection of job J, results in a broadcast that carries the
\* sender's id and role and the same coordinates, once to every connection
\* in J's group at that moment, the sender's own included.
C16_PresentCoordinatesAreBroadcast ==
    /\ [][\A k \in Conns, f \in Frames :
            (/\ f.type = "location_update"
             /\ f.latitude # Null /\ f.longitude # Null
             /\ Receive(k, f))
                => conn'[k].pc = "save_location" /\ conn'[k].frame = f]_vars
    /\ [][\A k \in Conns :
            conn[k].pc = "save_location"
                => conn'[k].pc \in {"save_location", "send_location"}]_vars
    /\ [][\A k \in Conns :
            (conn[k].pc = "send_location" /\ conn'[k].pc # "send_location")
                => /\ k \in groups[conn[k].request_id]
                   /\ \A c \in Conns :
                        channel'[c] =
                            IF c \in groups[conn[k].request_id]
                            THEN Append(channel[c],
                                   [type |-> "location.broadcast",
                                    latitude |-> conn[k].frame.latitude,
                                    longitude |-> conn[k].frame.longitude,
                                    user_id |-> conn[k].user,
                                    user_role |-> role(conn[k].user),
                                    timestamp |-> now])
                            ELSE channel[c]]_vars

InFlightPings ==
    {k \in Conns : conn[k].pc = "save_location" /\ valid_ping(conn[k].frame)}

\* C17: the location history is append-only: a valid ping inserts exactly
\* one sample (job, author, latitude, longitude), no step changes or removes
\* a sample, and the number of samples equals the number of valid pings
\* received (those whose save is still to run set aside).
C17_LocationHistoryAppendOnly ==
    /\ [](Len(location_updates) + Cardinality(InFlightPings) = received.pings)
    /\ [][\/ location_updates' = location_updates
          \/ \E k \in Conns :
                /\ conn[k].pc = "save_location"
                /\ conn'[k].pc = "send_location"
                /\ valid_ping(conn[k].frame)
                /\ location_updates' =
                     Append(location_updates,
                            [service_request |-> to_python(conn[k].request_id),
                             user |-> conn[k].user,
                             latitude |-> conn[k].frame.latitude,
                             longitude |-> conn[k].frame.longitude])]_vars

\* C17 witness: two valid pings, of the customer and of the provider, have
\* each left one sample.
C17_Witness ==
    /\ Len(location_updates) = 2
    /\ received.pings = 2
    /\ {location_updates[i].user : i \in 1..2} = {"c1", "m1"}

\* C18: a provider's position changes only when that provider sends a valid
\* location_update, which sets it to the pinged coordinates; a ping of the
\* customer leaves every position as it is.
C18_PositionFollowsOwnPings ==
    [][/\ \A m \in Mechanics :
            mechanic_profile'[m] # mechanic_profile[m]
                => \E k \in Conns :
                      /\ conn[k].user = m
                      /\ conn[k].pc = "save_location"
                      /\ conn'[k].pc = "send_location"
       /\ \A k \in Conns :
            (conn[k].pc = "save_location" /\ conn'[k].pc = "send_location")
                => IF conn[k].user \in Mechanics
                   THEN mechanic_profile'[conn[k].user] =
                          [current_latitude |-> conn[k].frame.latitude,
                           current_longitude |-> conn[k].frame.longitude,
                           last_location_update |-> now]
                   ELSE mechanic_profile' = mechanic_profile]_vars

\* C18 witness: the customer and the provider m1 have both pinged; m1 has
\* the pinged position and m2 has none.
C18_Witness ==
    /\ \E i \in 1..Len(location_updates) : location_updates[i].user = "c1"
    /\ \E i \in 1..Len(location_updates) : location_updates[i].user = "m1"
    /\ mechanic_profile["m1"].current_latitude = "31.5"
    /\ mechanic_profile["m1"].current_longitude = "74.3"
    /\ mechanic_profile["m2"] = NoPosition

\* C19: a chat_message frame whose text is empty or absent is dropped: no
\* message stored, nothing broadcast, no error; a frame with a text stores
\* exactly one chat message for the job's session and broadcasts one
\* chat_message event to every connection of the group, the sender included.
C19_ChatStoredAndBroadcast ==
    /\ [][\A k \in Conns, f \in Frames :
            (f.type = "chat_message" /\ Receive(k, f))
                => IF f.message = Null \/ f.message = ""
                   THEN HubUntouched(k)
                   ELSE conn'[k].pc = "save_chat" /\ conn'[k].frame = f]_vars
    /\ [][\A k \in Conns :
            /\ (conn[k].pc = "save_chat" /\ conn'[k].pc # "save_chat")
                => /\ conn'[k].pc = "send_chat"
                   /\ BagIn(to_python(conn[k].request_id), chat_sessions)
                   /\ chat_messages' =
                        Append(chat_messages,
                               [session |-> to_python(conn[k].request_id),
                                sender |-> conn[k].user,
                                message |-> conn[k].frame.message])
            /\ chat_messages' # chat_messages
                => \E c \in Conns : conn[c].pc = "save_chat"
                                       /\ conn'[c].pc = "send_chat"
            /\ (conn[k].pc = "send_chat" /\ conn'[k].pc # "send_chat")
                => /\ conn'[k].pc = "joined"
                   /\ k \in groups[conn[k].request_id]
                   /\ \A c \in Conns :
                        channel'[c] =
                            IF c \in groups[conn[k].request_id]
                            THEN Append(channel[c],
                                   [type |-> "chat.broadcast",
                                    message |->
                                      [session |-> to_python(conn[k].request_id),
                                       sender |-> conn[k].user,
                                       sender_role |-> role(conn[k].user),
                                       message |-> conn[k].frame.message]])
                            ELSE channel[c]]_vars

\* C19 witness: one text and then one empty text were received; one message
\* is stored and every connection of the group has been sent it.
C19_Witness ==
    /\ received.count = 2
    /\ received.last.frame.type = "chat_message"
    /\ received.last.frame.message = ""
    /\ Len(chat_messages) = 1
    /\ groups["j1"] = Conns
    /\ \A c \in Conns :
          \E i \in 1..Len(sent[c]) :
              sent[c][i].type = "chat_message" /\ sent[c][i].message.message = "hi"

\* C20: a frame whose type is neither location_update nor chat_message is
\* answered with the error frame 'Invalid message type.' to the sender only;
\* nothing is broadcast or stored and the sender stays joined.
C20_UnknownTypeGetsError ==
    [][\A k \in Conns, f \in Frames :
         (f.type \notin {"location_update", "chat_message"} /\ Receive(k, f))
             => /\ sent'[k] = Append(sent[k],
                        [type |-> "error", message |-> "Invalid message type."])
                /\ \A c \in Conns \ {k} : sent'[c] = sent[c]
                /\ UNCHANGED <<groups, channel, location_updates, chat_sessions,
                               chat_messages, mechanic_profile, store>>
                /\ conn' = conn
                /\ conn[k].pc = "joined"]_vars

\* C20 witness: a connection that was sent the error frame has afterwards
\* sent a chat message and received its broadcast.
C20_Witness ==
    \E k \in Conns :
        /\ Len(sent[k]) = 3
        /\ sent[k][2] = error_frame
        /\ sent[k][3].type = "chat_message"
        /\ chat_messages = <<[session |-> to_python(conn[k].request_id),
                              sender |-> conn[k].user, message |-> "hi"]>>
        /\ conn[k].pc = "joined"

HubTables ==
    <<location_updates, chat_sessions, chat_messages, mechanic_profile>>

\* C21: disconnecting a joined connection removes exactly that connection
\* from the job's group and changes nothing else: the job, the tables and the
\* other connections stay as they are, and nothing is queued for or sent to
\* the closed connection afterwards.
C21_DisconnectOnlyLeavesGroup ==
    /\ [](\A k \in Conns : conn[k].pc = "closed" => InNoGroup(k))
    /\ [][\A k \in Conns :
            /\ (conn[k].pc = "joined" /\ conn'[k].pc = "closed")
                => /\ groups' = [groups EXCEPT ![conn[k].request_id] = @ \ {k}]
                   /\ UNCHANGED <<store, channel, sent, HubTables>>
                   /\ \A c \in Conns \ {k} : conn'[c] = conn[c]
            /\ conn[k].pc = "closed"
                => /\ conn'[k] = conn[k]
                   /\ sent'[k] = sent[k]
                   /\ channel'[k] = channel[k]]_vars

\* C21 witness: k was sent the broadcast of a chat message, then closed; the
\* location broadcast made afterwards reached the other member only.
C21_Witness ==
    \E k, c \in Conns :
        /\ conn[k].pc = "closed"
        /\ Len(sent[k]) = 2 /\ sent[k][2].type = "chat_message"
        /\ channel[k] = <<>>
        /\ conn[c].pc = "joined"
        /\ Len(sent[c]) = 3 /\ sent[c][3].type = "location_update"
        /\ groups[conn[c].request_id] = {c}

\* the frames a connection has been sent or will be sent from its channel
Seen(c) ==
    sent[c] \o [i \in 1..Len(channel[c]) |-> frame_of(channel[c][i])]

\* the frame that the broadcast of a received event puts on a connection
BroadcastOf(e) ==
    IF e.frame.type = "location_update"
    THEN [type |-> "location_update", user_id |-> conn[e.conn].user,
          user_role |-> role(conn[e.conn].user),
          latitude |-> e.frame.latitude, longitude |-> e.frame.longitude,
          timestamp |-> now]
    ELSE [type |-> "chat_message",
          message |-> [session |-> to_python(conn[e.conn].request_id),
                       sender |-> conn[e.conn].user,
                       sender_role |-> role(conn[e.conn].user),
                       message |-> e.frame.message]]

SameFrame(a, b) == a.type = b.type /\ a = b

Places(c, fr) == {p \in 1..Len(Seen(c)) : SameFrame(Seen(c)[p], fr)}

\* C22: of two different events received on the same connection, every
\* member of the group is sent the broadcast of the first before the
\* broadcast of the second.
C22_SameSenderOrderKept ==
    \A i, j \in 1..Len(received.events) :
        LET ei == received.events[i]
            ej == received.events[j]
        IN  (/\ i < j
             /\ ei.conn = ej.conn
             /\ ~SameFrame(BroadcastOf(ei), BroadcastOf(ej))
             /\ \A n \in 1..Len(received.events) \ {i, j} :
                   /\ ~SameFrame(BroadcastOf(received.events[n]), BroadcastOf(ei))
                   /\ ~SameFrame(BroadcastOf(received.events[n]), BroadcastOf(ej)))
                => \A c \in Conns :
                      \A p \in Places(c, BroadcastOf(ej)),
                         q \in Places(c, BroadcastOf(ei)) : q < p

\* C22 witness: one connection sent a chat message and then a position; the
\* other member has been sent both broadcasts, in that order.
C22_Witness ==
    \E k, c \in Conns :
        /\ k # c
        /\ Len(received.events) = 2
        /\ received.events[1].conn = k /\ received.events[2].conn = k
        /\ received.events[1].frame.type = "chat_message"
        /\ received.events[2].frame.type = "location_update"
        /\ Len(sent[c]) = 3
        /\ sent[c][2].type = "chat_message"
        /\ sent[c][3].type = "location_update"

\* C23: when storing the sample of a valid location_update fails, the
\* handler still goes on to the broadcast and the sender's connection is
\* not closed.
C23_StorageFailureStillBroadcasts ==
    [][\A k \in Conns :
         (/\ conn[k].pc = "save_location"
          /\ valid_ping(conn[k].frame)
          /\ conn'[k].pc # "save_location")
             => conn'[k].pc = "send_location"]_vars

\* C24: the count a sweeper run returns equals the number of jobs that this
\* run retired.
C24_CountEqualsRetired ==
    \A run \in BagToSet(sw) :
        (run.pc = "delete" /\ run.todo = <<>>)
            => run.count = Cardinality(run.wrote)

\* C25: a sweeper run in which retiring one job fails goes on with the
\* rest of its selection (and returns from there).
C25_SweeperSurvivesItemFailure ==
    [][\A run \in BagToSet(sw) :
         (/\ run.pc = "delete"
          /\ run.todo # <<>>
          /\ CopiesIn(run, sw') < CopiesIn(run, sw))
             => \E next \in BagToSet(sw') :
                   /\ next.pc = "delete"
                   /\ next.cutoff_time = run.cutoff_time
                   /\ next.count = run.count
                   /\ next.todo = Tail(run.todo)
                   /\ CopiesIn(next, sw') > CopiesIn(next, sw)]_vars

\* C26: a complete request of the bound provider on a job in_progress
\* succeeds; a complete request on a job in any other status fails.
C26_CompleteFinishesJob ==
    \A u \in Users, j \in Jobs :
        active(db[j]) =>
            IF db[j].status = "in_progress" /\ db[j].mechanic = u
            THEN complete_response(u, db[j]) = "ok"
            ELSE complete_response(u, db[j]) # "ok"

\* C27: the save of a cancel request leaves the job cancelled, with the
\* reason supplied by the caller and with the caller's role as cancelled-by.
C27_CancelRecordsReasonAndRole ==
    [][\A q \in BagToSet(req) :
         (q.op = "cancel" /\ SaveRequest(q))
             => /\ db'[q.job].status = "cancelled"
                /\ db'[q.job].cancellation_reason \in
                       {reason_of(input) : input \in ReasonInputs}
                /\ db'[q.job].cancelled_by = role(q.user)]_vars

\* C28: a cancel request on a job that is completed or cancelled fails on
\* the status check (for every caller allowed to cancel the job), and no
\* such request gets as far as holding an instance to save.
C28_TerminalJobRefusesCancel ==
    /\ [](\A u \in Users, j \in Jobs :
            (/\ active(db[j])
             /\ db[j].status \in {"completed", "cancelled"}
             /\ (db[j].customer = u \/ db[j].mechanic = u \/ role(u) = "admin"))
                => cancel_response(u, db[j]) = "validation_error")
    /\ [][\A u \in Users, j \in Jobs, input \in ReasonInputs :
            db[j].status \in {"completed", "cancelled"}
                => ~BeginCancel(u, j, input)]_vars

\* C28 witness: a cancel has been saved; the job is cancelled and visible,
\* and a second cancel by its customer is refused.
C28_Witness ==
    \E j \in Jobs :
        /\ active(db[j])
        /\ db[j].status = "cancelled"
        /\ stats[db[j].customer].total_cancelled = 1
        /\ cancel_response(db[j].customer, db[j]) = "validation_error"

\* C29: every job is created with status pending, provider null and the
\* creating caller as customer, and only a caller with the customer role
\* creates a job.
C29_CreatedPendingByCustomer ==
    [][\A j \in Jobs :
         /\ \A u \in Users :
               Create(u, j)
                   => /\ role(u) = "customer"
                      /\ db'[j].exists
                      /\ db'[j].status = "pending"
                      /\ db'[j].mechanic = Null
                      /\ db'[j].customer = u
         /\ (~db[j].exists /\ db'[j].exists)
               => \E u \in Users : Create(u, j)]_vars

\* C29 witness: a job has been created by the customer c1.
C29_Witness ==
    \E j \in Jobs :
        /\ db[j].exists
        /\ db[j].status = "pending"
        /\ db[j].customer = "c1"
        /\ stats["c1"].total_requests = 1
        /\ retired[j] = 0

\* C30: no connection is admitted to, or stays in, a job's group while the
\* job is pending, and none is admitted outside the job's active window.
C30_SessionOnlyInActiveWindow ==
    \A k \in Conns :
        (conn[k].pc \in Admitted \/ ~InNoGroup(k))
            => /\ conn[k].service_request.status \in {"accepted", "in_progress"}
               /\ db[to_python(conn[k].request_id)].status # "pending"

\* the job of a connection: self.service_request
job_of(k) == to_python(conn[k].request_id)

\* C31: the groups of different jobs do not interfere: a group holds only
\* connections opened for its own URL, a broadcast made on a connection of
\* job J is queued only for connections that are in a group of J, a chat
\* frame sent to a connection belongs to that connection's job, and a join
\* or a leave on job J leaves the groups of every other job as they are.
C31_GroupsDoNotInterfere ==
    /\ [](\A r \in Urls : \A k \in groups[r] : conn[k].request_id = r)
    /\ [](\A c \in Conns : \A i \in 1..Len(sent[c]) :
            sent[c][i].type = "chat_message"
                => sent[c][i].message.session = job_of(c))
    /\ [][\A k \in Conns :
            /\ (conn[k].pc \in {"send_location", "send_chat"}
                    /\ conn'[k].pc = "joined")
                => \A c \in Conns :
                      channel'[c] # channel[c]
                          => /\ job_of(c) = job_of(k)
                             /\ c \in groups[conn[c].request_id]
            /\ (\/ conn[k].pc = "group_add" /\ conn'[k].pc # "group_add"
                \/ conn[k].pc = "joined" /\ conn'[k].pc = "closed")
                => /\ groups' # groups
                   /\ \A r \in Urls :
                        to_python(r) # job_of(k) => groups'[r] = groups[r]]_vars

\* C31 witness: k is joined to j1 and c to j2; a chat message of k has been
\* broadcast and sent to k, and c has been sent and is owed nothing but its
\* acknowledgement.
C31_Witness ==
    \E k, c \in Conns :
        /\ conn[k].pc = "joined" /\ job_of(k) = "j1"
        /\ conn[c].pc = "joined" /\ job_of(c) = "j2"
        /\ Len(sent[k]) = 2 /\ sent[k][2].type = "chat_message"
        /\ sent[c] = <<connection_established(conn[c].request_id)>>
        /\ channel[c] = <<>>
        /\ Len(chat_messages) = 1

\* the accounts that the flags keep from taking part
Gated == InactiveUsers \cup SuspendedUsers

\* C32: a suspended or inactive provider cannot accept a job (no accept of
\* such a provider returns 200 and no job is bound to one), and a suspended
\* or inactive customer cannot create a job.
C32_SuspendedCannotTakePart ==
    /\ \A u \in Gated : create_response(u) # "ok"
    /\ \A j \in Jobs :
          /\ db[j].mechanic \notin Gated
          /\ \A i \in 1..Len(winners[j]) : winners[j][i] \notin Gated

\* a consumer that has not yet finished its lookup
Attempting == {"new", "lookup"}

\* C33 as stated: a successful accept creates no session, the first
\* connection attempt for a job creates its session (once an attempt for an
\* existing job has been dealt with, the job has a session), and no job
\* has more than one session.
C33_SessionMadeByFirstAttempt ==
    /\ [](\A j \in Jobs : CopiesIn(j, chat_sessions) <= 1)
    /\ [][\A q \in BagToSet(req) :
            SaveRequest(q) => chat_sessions' = chat_sessions]_vars
    /\ [][\A k \in Conns :
            (/\ conn[k].pc \in Attempting
             /\ conn'[k].pc \notin Attempting
             /\ service_request_found(conn'[k].request_id))
                => BagIn(to_python(conn'[k].request_id), chat_sessions')]_vars

\* C33 amended: a successful accept creates no session; the session of a
\* job is created by the first attempt of an authenticated caller that
\* finds the job, whether or not the caller is then let in; the attempt of
\* an unauthenticated caller creates none; and no job has more than one
\* session, however the attempts interleave.
C33_SessionMadeByFirstLookup ==
    /\ [](\A j \in Jobs : CopiesIn(j, chat_sessions) <= 1)
    /\ [][\A q \in BagToSet(req) :
            SaveRequest(q) => chat_sessions' = chat_sessions]_vars
    /\ [][\A k \in Conns :
            /\ (/\ conn[k].pc = "lookup"
                /\ conn'[k].pc # "lookup"
                /\ service_request_found(conn[k].request_id))
                => /\ CopiesIn(job_of(k), chat_sessions') = 1
                   /\ \A j \in Jobs \ {job_of(k)} :
                        CopiesIn(j, chat_sessions') = CopiesIn(j, chat_sessions)
            /\ (conn[k].pc = "new" /\ conn'[k].pc = "closed")
                => conn'[k].user = AnonymousUser
                      /\ chat_sessions' = chat_sessions]_vars
    /\ [][chat_sessions' # chat_sessions
            => \E k \in Conns :
                  /\ conn[k].pc = "lookup"
                  /\ conn'[k].pc # "lookup"
                  /\ conn[k].user # AnonymousUser
                  /\ ~BagIn(job_of(k), chat_sessions)]_vars

\* C33 witness: j1 has been accepted, two authenticated callers have made
\* their attempt on it, one of them was refused, and j1 has one session.
C33_Witness ==
    \E k, c \in Conns :
        /\ Len(winners["j1"]) = 1
        /\ conn[k].pc = "joined" /\ conn[k].request_id = "j1"
        /\ conn[c].pc = "closed" /\ conn[c].request_id = "j1"
        /\ conn[c].user \in Users
        /\ conn[c].service_request.exists
        /\ CopiesIn("j1", chat_sessions) = 1

\* C34: once a sweeper run has retired a job, the job is invisible to every
\* later operation: an accept, start, complete or cancel request made on it
\* does not succeed, a new connection for it is closed at the lookup, and a
\* sweeper run that starts now does not select it.
C34_RetiredJobStaysInvisible ==
    \A j \in Jobs :
        retired[j] >= 1
            => /\ \A u \in Users :
                    /\ \A eta \in Etas : accept_response(u, db[j], eta) # "ok"
                    /\ start_response(u, db[j]) # "ok"
                    /\ complete_response(u, db[j]) # "ok"
                    /\ cancel_response(u, db[j]) # "ok"
               /\ ~service_request_found(j)
               /\ j \notin expired_requests(now - timeout_seconds)

\* C35: a connection attempt of an authenticated caller who is neither the
\* customer nor the bound provider of the job is closed and leaves the
\* stored state as it was: no session is created, no group gets a member.
C35_RefusedAttemptChangesNothing ==
    [][\A k \in Conns :
         (/\ conn[k].pc = "lookup"
          /\ conn'[k].pc # "lookup"
          /\ service_request_found(conn[k].request_id)
          /\ ~is_participant(conn[k].user, db[job_of(k)]))
             => /\ conn'[k].pc = "closed"
                /\ UNCHANGED <<store, groups, HubTables>>]_vars

\* C36: the first frame a connection is sent is its connection_established
\* acknowledgement: a broadcast queued for it between its group_add and its
\* acknowledgement is sent to it after the acknowledgement, never before.
C36_AcknowledgementComesFirst ==
    /\ [](\A k \in Conns :
            /\ sent[k] # <<>>
                => sent[k][1] = connection_established(conn[k].request_id)
            /\ conn[k].pc \in {"new", "lookup", "group_add", "accept"}
                => sent[k] = <<>>)
    /\ [][\A k \in Conns :
            (conn[k].pc = "accept" /\ conn'[k].pc # "accept")
                => /\ sent'[k] = <<connection_established(conn[k].request_id)>>
                   /\ channel'[k] = channel[k]]_vars

\* C36 witness: k is in the group and its acknowledgement is still to be
\* sent; the broadcast of another member is waiting in its channel.
C36_Witness ==
    \E k \in Conns :
        /\ conn[k].pc = "accept"
        /\ k \in groups[conn[k].request_id]
        /\ channel[k] # <<>>
        /\ sent[k] = <<>>

\* C37: all the connections joined for the same job are members of the same
\* group, whatever form of the job id their URL had (so that the broadcast
\* of one of them is queued for each of them).
C37_SameJobSameGroup ==
    \A k, c \in Conns :
        (conn[k].pc = "joined" /\ conn[c].pc = "joined" /\ job_of(k) = job_of(c))
            => \E r \in Urls : {k, c} \subseteq groups[r]

\* C38: no event of the hub changes a job: a connect, a location_update, a
\* chat_message, an invalid frame, a broadcast or a disconnect leaves the
\* status, provider, ETA and cancellation fields of every job, and the
\* rest of the job store, as they were; the instance a consumer read at
\* its lookup is not modified afterwards either.
C38_HubLeavesJobsAlone ==
    [][/\ \A j \in Jobs :
            /\ db'[j].status = db[j].status
            /\ db'[j].mechanic = db[j].mechanic
            /\ db'[j].estimated_arrival_time = db[j].estimated_arrival_time
            /\ db'[j].cancellation_reason = db[j].cancellation_reason
            /\ db'[j].cancelled_by = db[j].cancelled_by
            /\ db'[j] = db[j]
       /\ UNCHANGED store
       /\ \A k \in Conns :
            conn[k].pc \notin Attempting
                => conn'[k].service_request = conn[k].service_request]_vars

\* C38 witness: on a job accepted by m1 a position and a chat message have
\* been stored and broadcast and one of the two connections has left; the
\* job is the accepted row it was.
C38_Witness ==
    \E k, c \in Conns :
        /\ Len(location_updates) = 1
        /\ Len(chat_messages) = 1
        /\ conn[k].pc = "closed" /\ sent[k] # <<>>
        /\ conn[c].pc = "joined" /\ Len(sent[c]) = 3
        /\ db["j1"] = accept_assign(PendingRow, "m1", 10)

\* the jobs of customer u that a step takes into status s
Reaching(u, s) ==
    {j \in Jobs : /\ db'[j].customer = u
                  /\ db'[j].status = s
                  /\ db[j].status # s}

\* C39: the statistics count each transition once: in every step a
\* customer's total_completed grows by the number of their jobs that reach
\* completed in that step and total_cancelled by the number that reach
\* cancelled; a save of a job that is already in that status adds nothing.
C39_TransitionsCountedOnce ==
    [][\A u \in Customers :
         /\ stats'[u].total_completed =
                stats[u].total_completed + Cardinality(Reaching(u, "completed"))
         /\ stats'[u].total_cancelled =
                stats[u].total_cancelled + Cardinality(Reaching(u, "cancelled"))]_vars

====
